---- MODULE Spec2Model ----
(***************************************************************************)
(* Model of the two Streamlit pages of sdsgenerator:                       *)
(*   hazard_checker.py           the hazard-code page                      *)
(*   chemical_safety_checker.py  the chemical page (PubChem lookup, hazard *)
(*                               panel, PPE recommendations, simple SDS)   *)
(*                                                                         *)
(* Python strings that the code splits or uses as keys are sequences of    *)
(* one-character strings; display texts that the code only copies are      *)
(* TLA+ strings.  An emoji is written as its code points ("U+1F525").      *)
(***************************************************************************)
EXTENDS Integers, Sequences, FiniteSets, TLC

\* ------------------------------------------------------------ bounds
\* Longest hazard list drawn as the input of the pure functions.
MaxLen == 3

\* ------------------------------------------------------------ strings
Digit == <<"0", "1", "2", "3", "4", "5", "6", "7", "8", "9">>

\* The string "H<n>" for a three-digit n, e.g. Hcode(300) = "H300".
Hcode(n) == <<"H", Digit[((n \div 100) % 10) + 1], Digit[((n \div 10) % 10) + 1], Digit[(n % 10) + 1]>>

\* sep in s
Contains(s, sep) == \E i \in 1..Len(s) : s[i] = sep

\* Index of the first occurrence of sep in s; Len(s) + 1 when there is none.
FirstIndex(s, sep) == IF Contains(s, sep) THEN CHOOSE i \in 1..Len(s) : s[i] = sep /\ \A j \in 1..(i - 1) : s[j] # sep ELSE Len(s) + 1

\* s.split(sep): every piece, empty pieces included; "".split(sep) = [""].
RECURSIVE Split(_, _)
Split(s, sep) ==
    IF ~Contains(s, sep) THEN <<s>>
    ELSE LET i == FirstIndex(s, sep)
         IN <<SubSeq(s, 1, i - 1)>> \o Split(SubSeq(s, i + 1, Len(s)), sep)

\* Mutant of CodeOf: the text after ':' is not cut off.
CodeOfWhole(s) == s

\* hazard.split(':')[0] if ':' in hazard else hazard
CodeOf(s) == IF Contains(s, ":") THEN Split(s, ":")[1] ELSE s

\* ------------------------------------------------------------ values
\* A JSON value that can end up in the hazard list: a string, a number, or
\* an unhashable value (a JSON array or object).
Str(s) == [t |-> "str", s |-> s, n |-> 0]
Num(n) == [t |-> "int", s |-> <<>>, n |-> n]
Arr == [t |-> "list", s |-> <<>>, n |-> 0]

\* isinstance(v, str)
IsStr(v) == v.t = "str"

\* ------------------------------------------------------------ hazard_checker.py
\* Mutant of hazard_map_literal: the name of H314 differs from the one the
\* chemical page gives it.
hazard_map_drifted ==
    Hcode(200) :> [symbol |-> "U+1F4A5", name |-> "Explosive"] @@
    Hcode(220) :> [symbol |-> "U+1F525", name |-> "Extremely flammable gas"] @@
    Hcode(300) :> [symbol |-> "U+2620 U+FE0F", name |-> "Fatal if swallowed"] @@
    Hcode(314) :> [symbol |-> "U+26A0 U+FE0F", name |-> "Causes severe skin burns"] @@
    Hcode(400) :> [symbol |-> "U+1F41F", name |-> "Very toxic to aquatic life"]

hazard_map_literal ==
    Hcode(200) :> [symbol |-> "U+1F4A5", name |-> "Explosive"] @@
    Hcode(220) :> [symbol |-> "U+1F525", name |-> "Extremely flammable gas"] @@
    Hcode(300) :> [symbol |-> "U+2620 U+FE0F", name |-> "Fatal if swallowed"] @@
    Hcode(314) :> [symbol |-> "U+26A0 U+FE0F", name |-> "Causes severe skin burns and eye damage"] @@
    Hcode(400) :> [symbol |-> "U+1F41F", name |-> "Very toxic to aquatic life"]

\* Mutant of handling_instructions_literal: H400 has no entry.
handling_instructions_short ==
    Hcode(200) :> "Handle with care. Avoid impact and friction." @@
    Hcode(220) :> "Keep away from heat, sparks, open flames, and hot surfaces." @@
    Hcode(300) :> "If swallowed, seek medical attention immediately." @@
    Hcode(314) :> "Wear protective gloves and eye protection."

handling_instructions_literal ==
    Hcode(200) :> "Handle with care. Avoid impact and friction." @@
    Hcode(220) :> "Keep away from heat, sparks, open flames, and hot surfaces." @@
    Hcode(300) :> "If swallowed, seek medical attention immediately." @@
    Hcode(314) :> "Wear protective gloves and eye protection." @@
    Hcode(400) :> "Avoid release to the environment. Collect spillage."

NoInstruction == "No specific handling instructions available."

\* What the hazard-code page shows: nothing, the symbol line and the
\* handling line, or the warning.
HpBlank == [symbolShown |-> FALSE, symbol |-> "", name |-> "", instruction |-> "", warning |-> FALSE]

\* dict.get(key, default)
DictGet(d, key, default) == IF key \in DOMAIN d THEN d[key] ELSE default

\* main() of hazard_checker.py on the text input `code`, reading the two
\* module-level dictionaries hm and hi.
hazard_page(hm, hi, code) ==
    IF code = <<>> THEN HpBlank
    ELSE IF code \in DOMAIN hm
         THEN [symbolShown |-> TRUE, symbol |-> hm[code].symbol, name |-> hm[code].name,
               instruction |-> DictGet(hi, code, NoInstruction), warning |-> FALSE]
         ELSE [HpBlank EXCEPT !.warning = TRUE]

\* ------------------------------------------------------------ chemical_safety_checker.py
\* The dictionary built inside hazard_to_symbol on every call.
symbol_table ==
    Hcode(200) :> [symbol |-> "U+1F4A5", name |-> "Explosive"] @@
    Hcode(201) :> [symbol |-> "U+1F4A5", name |-> "Explosive: mass explosion hazard"] @@
    Hcode(202) :> [symbol |-> "U+1F4A5", name |-> "Explosive: severe projection hazard"] @@
    Hcode(220) :> [symbol |-> "U+1F525", name |-> "Extremely flammable gas"] @@
    Hcode(221) :> [symbol |-> "U+1F525", name |-> "Flammable gas"] @@
    Hcode(222) :> [symbol |-> "U+1F525", name |-> "Extremely flammable aerosol"] @@
    Hcode(223) :> [symbol |-> "U+1F525", name |-> "Flammable aerosol"] @@
    Hcode(224) :> [symbol |-> "U+1F525", name |-> "Extremely flammable liquid and vapor"] @@
    Hcode(225) :> [symbol |-> "U+1F525", name |-> "Highly flammable liquid and vapor"] @@
    Hcode(226) :> [symbol |-> "U+1F525", name |-> "Flammable liquid and vapor"] @@
    Hcode(228) :> [symbol |-> "U+1F525", name |-> "Flammable solid"] @@
    Hcode(240) :> [symbol |-> "U+1F4A5 U+1F525", name |-> "Heating may cause an explosion"] @@
    Hcode(241) :> [symbol |-> "U+1F4A5 U+1F525", name |-> "Heating may cause a fire or explosion"] @@
    Hcode(242) :> [symbol |-> "U+1F525", name |-> "Heating may cause a fire"] @@
    Hcode(250) :> [symbol |-> "U+1F525", name |-> "Catches fire spontaneously if exposed to air"] @@
    Hcode(251) :> [symbol |-> "U+1F525", name |-> "Self-heating; may catch fire"] @@
    Hcode(252) :> [symbol |-> "U+1F525", name |-> "Self-heating in large quantities; may catch fire"] @@
    Hcode(260) :> [symbol |-> "U+1F4A7 U+1F525", name |-> "In contact with water releases flammable gases which may ignite spontaneously"] @@
    Hcode(261) :> [symbol |-> "U+1F4A7 U+1F525", name |-> "In contact with water releases flammable gas"] @@
    Hcode(270) :> [symbol |-> "U+1F525 U+1F504", name |-> "May cause or intensify fire; oxidizer"] @@
    Hcode(271) :> [symbol |-> "U+1F525 U+2757", name |-> "May cause fire or explosion; strong oxidizer"] @@
    Hcode(272) :> [symbol |-> "U+1F525", name |-> "May intensify fire; oxidizer"] @@
    Hcode(280) :> [symbol |-> "U+1F3FA", name |-> "Contains gas under pressure; may explode if heated"] @@
    Hcode(281) :> [symbol |-> "U+1F3FA U+2744 U+FE0F", name |-> "Contains refrigerated gas; may cause cryogenic burns or injury"] @@
    Hcode(290) :> [symbol |-> "U+26A1", name |-> "May be corrosive to metals"] @@
    Hcode(300) :> [symbol |-> "U+2620 U+FE0F", name |-> "Fatal if swallowed"] @@
    Hcode(301) :> [symbol |-> "U+2620 U+FE0F", name |-> "Toxic if swallowed"] @@
    Hcode(302) :> [symbol |-> "U+26A0 U+FE0F", name |-> "Harmful if swallowed"] @@
    Hcode(304) :> [symbol |-> "U+26A0 U+FE0F", name |-> "May be fatal if swallowed and enters airways"] @@
    Hcode(310) :> [symbol |-> "U+2620 U+FE0F", name |-> "Fatal in contact with skin"] @@
    Hcode(311) :> [symbol |-> "U+2620 U+FE0F", name |-> "Toxic in contact with skin"] @@
    Hcode(312) :> [symbol |-> "U+26A0 U+FE0F", name |-> "Harmful in contact with skin"] @@
    Hcode(314) :> [symbol |-> "U+26A0 U+FE0F", name |-> "Causes severe skin burns and eye damage"] @@
    Hcode(315) :> [symbol |-> "U+26A0 U+FE0F", name |-> "Causes skin irritation"] @@
    Hcode(317) :> [symbol |-> "U+26A0 U+FE0F", name |-> "May cause an allergic skin reaction"] @@
    Hcode(318) :> [symbol |-> "U+26A0 U+FE0F U+1F441 U+FE0F", name |-> "Causes serious eye damage"] @@
    Hcode(319) :> [symbol |-> "U+26A0 U+FE0F U+1F441 U+FE0F", name |-> "Causes serious eye irritation"] @@
    Hcode(330) :> [symbol |-> "U+2620 U+FE0F", name |-> "Fatal if inhaled"] @@
    Hcode(331) :> [symbol |-> "U+2620 U+FE0F", name |-> "Toxic if inhaled"] @@
    Hcode(332) :> [symbol |-> "U+26A0 U+FE0F", name |-> "Harmful if inhaled"] @@
    Hcode(334) :> [symbol |-> "U+26A0 U+FE0F", name |-> "May cause allergy or asthma symptoms or breathing difficulties if inhaled"] @@
    Hcode(335) :> [symbol |-> "U+26A0 U+FE0F", name |-> "May cause respiratory irritation"] @@
    Hcode(336) :> [symbol |-> "U+26A0 U+FE0F", name |-> "May cause drowsiness or dizziness"] @@
    Hcode(340) :> [symbol |-> "U+26A0 U+FE0F", name |-> "May cause genetic defects"] @@
    Hcode(341) :> [symbol |-> "U+26A0 U+FE0F", name |-> "Suspected of causing genetic defects"] @@
    Hcode(350) :> [symbol |-> "U+26A0 U+FE0F", name |-> "May cause cancer"] @@
    Hcode(351) :> [symbol |-> "U+26A0 U+FE0F", name |-> "Suspected of causing cancer"] @@
    Hcode(360) :> [symbol |-> "U+26A0 U+FE0F", name |-> "May damage fertility or the unborn child"] @@
    Hcode(361) :> [symbol |-> "U+26A0 U+FE0F", name |-> "Suspected of damaging fertility or the unborn child"] @@
    Hcode(362) :> [symbol |-> "U+26A0 U+FE0F", name |-> "May cause harm to breast-fed children"] @@
    Hcode(370) :> [symbol |-> "U+26A0 U+FE0F U+1F9E0", name |-> "Causes damage to organs"] @@
    Hcode(371) :> [symbol |-> "U+26A0 U+FE0F U+1F9E0", name |-> "May cause damage to organs"] @@
    Hcode(372) :> [symbol |-> "U+26A0 U+FE0F U+1F9E0", name |-> "Causes damage to organs through prolonged or repeated exposure"] @@
    Hcode(373) :> [symbol |-> "U+26A0 U+FE0F U+1F9E0", name |-> "May cause damage to organs through prolonged or repeated exposure"] @@
    Hcode(400) :> [symbol |-> "U+1F41F", name |-> "Very toxic to aquatic life"] @@
    Hcode(401) :> [symbol |-> "U+1F41F", name |-> "Toxic to aquatic life"] @@
    Hcode(402) :> [symbol |-> "U+1F41F", name |-> "Harmful to aquatic life"] @@
    Hcode(410) :> [symbol |-> "U+1F41F U+1F480", name |-> "Very toxic to aquatic life with long lasting effects"] @@
    Hcode(411) :> [symbol |-> "U+1F41F U+1F480", name |-> "Toxic to aquatic life with long lasting effects"] @@
    Hcode(412) :> [symbol |-> "U+1F41F U+1F480", name |-> "Harmful to aquatic life with long lasting effects"] @@
    Hcode(413) :> [symbol |-> "U+1F41F", name |-> "May cause long lasting harmful effects to aquatic life"]

UnknownHazard == [symbol |-> "U+2753", name |-> "Unknown hazard"]

\* dict.get raises TypeError on an unhashable key.
Unhashable(v) == v.t = "list"

\* hazard_to_symbol(v) for a hashable v: a string is looked up, a number is
\* never a key.
hazard_to_symbol(v) == IF IsStr(v) THEN DictGet(symbol_table, v.s, UnknownHazard) ELSE UnknownHazard

\* The code lists of get_ppe_recommendations.
ToxicCodes == {Hcode(300), Hcode(301), Hcode(302), Hcode(304), Hcode(310), Hcode(311), Hcode(312), Hcode(330), Hcode(331), Hcode(332)}
CorrosiveCodes == {Hcode(314), Hcode(315), Hcode(318), Hcode(319)}
FlammableCodes == {Hcode(220), Hcode(221), Hcode(222), Hcode(223), Hcode(224), Hcode(225), Hcode(226)}
CarcinogenCodes == {Hcode(340), Hcode(341), Hcode(350), Hcode(351)}

SafetyGlasses == [item |-> "Safety Glasses", description |-> "Basic eye protection"]
Respirator == [item |-> "Respirator", description |-> "Protection against inhalation of toxic substances"]
Gloves == [item |-> "Gloves", description |-> "Chemical-resistant gloves"]
FaceShield == [item |-> "Face Shield", description |-> "Additional face and eye protection"]
ChemicalApron == [item |-> "Chemical Apron", description |-> "Protection against skin contact"]
FlameResistant == [item |-> "Flame-Resistant Clothing", description |-> "Protection against fire hazards"]
FullBodySuit == [item |-> "Full Body Suit", description |-> "Complete protection against carcinogens"]

\* The four membership tests of the loop body, in the order of the code.
ToxicPPE(c) == IF c \in ToxicCodes THEN <<Respirator, Gloves>> ELSE <<>>
CorrosivePPE(c) == IF c \in CorrosiveCodes THEN <<FaceShield, ChemicalApron>> ELSE <<>>
FlammablePPE(c) == IF c \in FlammableCodes THEN <<FlameResistant>> ELSE <<>>
CarcinogenPPE(c) == IF c \in CarcinogenCodes THEN <<FullBodySuit>> ELSE <<>>

\* What one iteration of the loop appends for the hazard v.
PPEFor(v) ==
    IF IsStr(v)
    THEN LET hazard_code == CodeOf(v.s)
         IN ToxicPPE(hazard_code) \o CorrosivePPE(hazard_code) \o FlammablePPE(hazard_code) \o CarcinogenPPE(hazard_code)
    ELSE <<>>

RECURSIVE PPELoop(_)
PPELoop(hazards) == IF hazards = <<>> THEN <<>> ELSE PPEFor(Head(hazards)) \o PPELoop(Tail(hazards))

\* ppe_recommendations as it stands before the duplicates are removed.
ppe_recommendations_raw(hazards) == <<SafetyGlasses>> \o PPELoop(hazards)

\* The "Remove duplicates" loop: seen is the set of items already kept.
RECURSIVE UniqueLoop(_, _)
UniqueLoop(recs, seen) ==
    IF recs = <<>> THEN <<>>
    ELSE IF Head(recs).item \notin seen
         THEN <<Head(recs)>> \o UniqueLoop(Tail(recs), seen \cup {Head(recs).item})
         ELSE UniqueLoop(Tail(recs), seen)

\* Mutant of unique_ppe: nothing is ever added to seen, so every entry is kept.
unique_ppe_keeps_all(recs) == recs

unique_ppe(recs) == UniqueLoop(recs, {})

get_ppe_recommendations(hazards) == unique_ppe(ppe_recommendations_raw(hazards))

\* The hazard panel of main(): one rendered line per hazard code not yet in
\* unique_hazards.  `code` is the loop's hazard_code; the page displays the
\* symbol and the name.
RECURSIVE PanelLoop(_, _)
PanelLoop(hazards, unique_hazards) ==
    IF hazards = <<>> THEN <<>>
    ELSE LET hazard == Head(hazards)
             hazard_code == CodeOf(hazard.s)
             hazard_info == hazard_to_symbol(Str(hazard_code))
         IN IF IsStr(hazard) /\ hazard_code \notin unique_hazards
            THEN <<[code |-> hazard_code, symbol |-> hazard_info.symbol, name |-> hazard_info.name]>>
                 \o PanelLoop(Tail(hazards), unique_hazards \cup {hazard_code})
            ELSE PanelLoop(Tail(hazards), unique_hazards)

\* Mutant of hazard_panel: unique_hazards is not consulted, so every string
\* entry is rendered.
hazard_panel_every(hazards) ==
    LET strings == SelectSeq(hazards, IsStr)
    IN [i \in 1..Len(strings) |->
           [code |-> CodeOf(strings[i].s),
            symbol |-> hazard_to_symbol(Str(CodeOf(strings[i].s))).symbol,
            name |-> hazard_to_symbol(Str(CodeOf(strings[i].s))).name]]

hazard_panel(hazards) == PanelLoop(hazards, {})

\* generate_sds: the product name, one <li> per hazard (looked up by the
\* whole hazard, not by its code) and one <li> per PPE entry; the fixed
\* text of the template is left out.  hazard_to_symbol raises TypeError on
\* an unhashable hazard, and no SDS is returned.
NoSds == [made |-> FALSE, product |-> "", hazardItems |-> <<>>, ppeItems |-> <<>>]

SdsHazardItem(hazard) == [symbol |-> hazard_to_symbol(hazard).symbol, name |-> hazard_to_symbol(hazard).name, hazard |-> hazard]

generate_sds_raises(hazards) == \E i \in 1..Len(hazards) : Unhashable(hazards[i])

generate_sds(chemical_name, hazards, ppe_recommendations) ==
    [made |-> TRUE, product |-> chemical_name,
     hazardItems |-> [i \in 1..Len(hazards) |-> SdsHazardItem(hazards[i])],
     ppeItems |-> ppe_recommendations]

\* ------------------------------------------------------------ interpret_hazards
HazardStatements == <<"H", "a", "z", "a", "r", "d", " ", "S", "t", "a", "t", "e", "m", "e", "n", "t", "s">>

\* sub in s, for two strings
IsSubstring(sub, s) == \E i \in 0..(Len(s) - Len(sub)) : SubSeq(s, i + 1, i + Len(sub)) = sub

\* The hazards of one PC_Compounds entry are collected by two loops; an
\* exception (a missing key, sval not a string) leaves the loop at once and
\* keeps what was collected so far.
RECURSIVE CoordsLoop(_, _)
CoordsLoop(coords, hazards) ==
    IF coords = <<>> THEN [hazards |-> hazards, raised |-> FALSE]
    ELSE LET coord == Head(coords)
         IN IF coord.hasType /\ coord.type = 2
            THEN IF coord.hasAid
                 THEN CoordsLoop(Tail(coords), Append(hazards, coord.aid))
                 ELSE [hazards |-> hazards, raised |-> TRUE]
            ELSE CoordsLoop(Tail(coords), hazards)

StrList(pieces) == [i \in 1..Len(pieces) |-> Str(pieces[i])]

RECURSIVE PropsLoop(_, _)
PropsLoop(props, hazards) ==
    IF props = <<>> THEN [hazards |-> hazards, raised |-> FALSE]
    ELSE LET prop == Head(props)
         IN IF prop.hasUrn /\ prop.hasLabel
            THEN IF IsSubstring(HazardStatements, prop.label)
                 THEN IF prop.hasSval
                      THEN PropsLoop(Tail(props), hazards \o StrList(Split(prop.sval, ";")))
                      ELSE [hazards |-> hazards, raised |-> TRUE]
                 ELSE PropsLoop(Tail(props), hazards)
            ELSE PropsLoop(Tail(props), hazards)

\* interpret_hazards(compound_data): the list it returns, and whether its
\* except clause ran (st.warning "Error interpreting hazards").
interpret_hazards(compound_data) ==
    IF ~compound_data.container THEN [hazards |-> <<>>, raised |-> TRUE]
    ELSE IF ~compound_data.hasPC THEN [hazards |-> <<>>, raised |-> FALSE]
    ELSE IF compound_data.pcs = <<>> THEN [hazards |-> <<>>, raised |-> TRUE]
    ELSE LET compound == compound_data.pcs[1]
             afterCoords == IF compound.hasCoords /\ compound.coordsIsList
                            THEN CoordsLoop(compound.coords, <<>>)
                            ELSE [hazards |-> <<>>, raised |-> FALSE]
         IN IF afterCoords.raised THEN afterCoords
            ELSE IF compound.hasProps THEN PropsLoop(compound.props, afterCoords.hazards)
            ELSE afterCoords

\* ------------------------------------------------------------ get_pubchem_data
\* A response to requests.get: the exception it raised (NotRaised: it
\* returned), the status code and the body.
NoException == "none"

\* The classes `except Exception` catches, among those the try block raises.
ExceptionClasses == {"ConnectionError", "JSONDecodeError", "TypeError", "KeyError", "IndexError"}

\* Mutant of except_Exception: the clause reads `except requests.RequestException`.
except_RequestException(cls) == cls = "ConnectionError"

except_Exception(cls) == cls \in ExceptionClasses

\* An exception: its class and str(e).
Exc(cls, text) == [cls |-> cls, text |-> text]
NotRaised == Exc(NoException, "")
ConnectionError == Exc("ConnectionError", "HTTPSConnectionPool: Max retries exceeded")
JSONDecodeError == Exc("JSONDecodeError", "Expecting value: line 1 column 1 (char 0)")
TypeError == Exc("TypeError", "list indices must be integers or slices, not str")
KeyErrorIdentifierList == Exc("KeyError", "'IdentifierList'")
KeyErrorCID == Exc("KeyError", "'CID'")
IndexError == Exc("IndexError", "list index out of range")

CidNotFound == "Chemical not found or error in PubChem API"
DetailsFailed == "Failed to fetch compound details"

\* Mutant of status_is_200: the test reads `response.ok`.
status_is_ok(status_code) == status_code \in 200..299

\* response.status_code == 200
status_is_200(status_code) == status_code = 200

\* Mutant of ExtractCid: an empty CID list gives a default instead of raising.
ExtractCidDefault(body) ==
    IF ~body.valid THEN [raised |-> JSONDecodeError, cid |-> 0]
    ELSE IF ~body.isDict THEN [raised |-> TypeError, cid |-> 0]
    ELSE IF ~body.hasIdList THEN [raised |-> KeyErrorIdentifierList, cid |-> 0]
    ELSE IF ~body.hasCID THEN [raised |-> KeyErrorCID, cid |-> 0]
    ELSE IF body.cids = <<>> THEN [raised |-> NotRaised, cid |-> 0]
    ELSE [raised |-> NotRaised, cid |-> body.cids[1]]

\* response.json()['IdentifierList']['CID'][0]: the exception it raises,
\* or the CID.
ExtractCid(body) ==
    IF ~body.valid THEN [raised |-> JSONDecodeError, cid |-> 0]
    ELSE IF ~body.isDict THEN [raised |-> TypeError, cid |-> 0]
    ELSE IF ~body.hasIdList THEN [raised |-> KeyErrorIdentifierList, cid |-> 0]
    ELSE IF ~body.hasCID THEN [raised |-> KeyErrorCID, cid |-> 0]
    ELSE IF body.cids = <<>> THEN [raised |-> IndexError, cid |-> 0]
    ELSE [raised |-> NotRaised, cid |-> body.cids[1]]

Success(compound_data) == [success |-> TRUE, data |-> compound_data]
Failure(message) == [success |-> FALSE, error |-> message]

\* What get_pubchem_data does with the name-to-CID response: the result
\* it returns, the exception that leaves it, or the CID to ask for next.
AfterCid(response) ==
    IF response.exc # NotRaised
    THEN IF except_Exception(response.exc.cls)
         THEN [next |-> "return", result |-> Failure(response.exc.text), cid |-> 0]
         ELSE [next |-> "raise", result |-> Failure(""), cid |-> 0]
    ELSE IF status_is_200(response.status)
         THEN LET got == ExtractCid(response.body)
              IN IF got.raised = NotRaised
                 THEN [next |-> "request", result |-> Failure(""), cid |-> got.cid]
                 ELSE IF except_Exception(got.raised.cls)
                      THEN [next |-> "return", result |-> Failure(got.raised.text), cid |-> 0]
                      ELSE [next |-> "raise", result |-> Failure(""), cid |-> 0]
         ELSE [next |-> "return", result |-> Failure(CidNotFound), cid |-> 0]

\* ... and with the compound-details response.
AfterCompound(response) ==
    IF response.exc # NotRaised
    THEN IF except_Exception(response.exc.cls)
         THEN [next |-> "return", result |-> Failure(response.exc.text)]
         ELSE [next |-> "raise", result |-> Failure("")]
    ELSE IF status_is_200(response.status)
         THEN IF response.valid
              THEN [next |-> "return", result |-> Success(response.data)]
              ELSE IF except_Exception(JSONDecodeError.cls)
                   THEN [next |-> "return", result |-> Failure(JSONDecodeError.text)]
                   ELSE [next |-> "raise", result |-> Failure("")]
         ELSE [next |-> "return", result |-> Failure(DetailsFailed)]

\* ------------------------------------------------------------ main() of the chemical page
Blank ==
    [title |-> "", symbolsHeader |-> FALSE, panel |-> <<>>, ppeHeader |-> FALSE, ppe |-> <<>>,
     button |-> FALSE, sds |-> NoSds, noHazardWarning |-> FALSE, errorShown |-> FALSE, error |-> "",
     interpretWarning |-> FALSE, exception |-> FALSE]

\* Mutant of NonEmptyList: the test reads `if hazards is not None:`.
IsNotNone(list) == TRUE

\* `if hazards:` -- a list is true when it is not empty.
NonEmptyList(list) == list # <<>>

\* main() from the line after get_pubchem_data returned `result`: the
\* hazard list, what is on the page at the end of the run, and the
\* functions called, in call order.  `click` is the value st.button returns.
Render(name, click, result) ==
    IF result.success
    THEN LET got == interpret_hazards(result.data)
             hazards == got.hazards
             ppe_recommendations == get_ppe_recommendations(hazards)
             page == [Blank EXCEPT !.title = name, !.interpretWarning = got.raised]
         IN IF NonEmptyList(hazards)
            THEN LET listed == [page EXCEPT !.symbolsHeader = TRUE, !.panel = hazard_panel(hazards),
                                            !.ppeHeader = TRUE, !.ppe = ppe_recommendations, !.button = TRUE]
                 IN IF click
                    THEN [hazards |-> hazards,
                          shown |-> IF generate_sds_raises(hazards)
                                    THEN [listed EXCEPT !.exception = TRUE]
                                    ELSE [listed EXCEPT !.sds = generate_sds(name, hazards, ppe_recommendations)],
                          calls |-> <<"interpret_hazards", "hazard_to_symbol", "get_ppe_recommendations", "generate_sds">>]
                    ELSE [hazards |-> hazards, shown |-> listed,
                          calls |-> <<"interpret_hazards", "hazard_to_symbol", "get_ppe_recommendations">>]
            ELSE [hazards |-> hazards, shown |-> [page EXCEPT !.noHazardWarning = TRUE],
                  calls |-> <<"interpret_hazards">>]
    ELSE [hazards |-> <<>>,
          shown |-> [Blank EXCEPT !.title = name, !.errorShown = TRUE, !.error = result.error],
          calls |-> <<>>]

\* ------------------------------------------------------------ inputs
Names == {"", "Acetone", "Ethanol"}

NoBody == [valid |-> FALSE, isDict |-> FALSE, hasIdList |-> FALSE, hasCID |-> FALSE, cids |-> <<>>]
CidBody(cids) == [valid |-> TRUE, isDict |-> TRUE, hasIdList |-> TRUE, hasCID |-> TRUE, cids |-> cids]

CidBodies ==
    {NoBody,
     [NoBody EXCEPT !.valid = TRUE],
     [NoBody EXCEPT !.valid = TRUE, !.isDict = TRUE],
     [NoBody EXCEPT !.valid = TRUE, !.isDict = TRUE, !.hasIdList = TRUE],
     CidBody(<<>>), CidBody(<<702, 5>>)}

CidResponses ==
    {[exc |-> ConnectionError, status |-> 0, body |-> NoBody]}
    \cup {[exc |-> NotRaised, status |-> s, body |-> NoBody] : s \in {404, 503}}
    \cup {[exc |-> NotRaised, status |-> 202, body |-> CidBody(<<180>>)]}
    \cup {[exc |-> NotRaised, status |-> 200, body |-> b] : b \in CidBodies}

NoData == [container |-> FALSE, hasPC |-> FALSE, pcs |-> <<>>]
Coord(type, aid) == [hasType |-> TRUE, type |-> type, hasAid |-> TRUE, aid |-> aid]
Prop(label, sval) == [hasUrn |-> TRUE, hasLabel |-> TRUE, label |-> label, hasSval |-> TRUE, sval |-> sval]
NoCoords == [hasCoords |-> FALSE, coordsIsList |-> FALSE, coords |-> <<>>, hasProps |-> FALSE, props |-> <<>>]
Compound(coords, props) == [hasCoords |-> TRUE, coordsIsList |-> TRUE, coords |-> coords, hasProps |-> TRUE, props |-> props]
Data(compound) == [container |-> TRUE, hasPC |-> TRUE, pcs |-> <<compound>>]

LabelGHS == <<"G", "H", "S", " ">> \o HazardStatements
LabelName == <<"I", "U", "P", "A", "C", " ", "N", "a", "m", "e">>

\* "H225;H319;H336", "H300: F; H314", "H225;H225:x;H226;H301;H330"
SvalAcetone == Hcode(225) \o <<";">> \o Hcode(319) \o <<";">> \o Hcode(336)
SvalTexts == Hcode(300) \o <<":", " ", "F", ";", " ">> \o Hcode(314)
SvalDups == Hcode(225) \o <<";">> \o Hcode(225) \o <<":", "x", ";">> \o Hcode(226) \o <<";">> \o Hcode(301) \o <<";">> \o Hcode(330)

CompoundDatas ==
    {NoData,
     [NoData EXCEPT !.container = TRUE],
     [NoData EXCEPT !.container = TRUE, !.hasPC = TRUE],
     Data(NoCoords),
     Data([NoCoords EXCEPT !.hasCoords = TRUE, !.coords = <<Coord(2, Num(7))>>, !.hasProps = TRUE, !.props = <<Prop(LabelName, SvalAcetone)>>]),
     Data(Compound(<<>>, <<Prop(LabelName, <<"x">>), Prop(LabelGHS, SvalAcetone)>>)),
     Data(Compound(<<>>, <<Prop(HazardStatements, SvalTexts)>>)),
     Data(Compound(<<>>, <<Prop(LabelGHS, <<>>)>>)),
     Data(Compound(<<Coord(1, Num(3)), Coord(2, Num(7))>>, <<>>)),
     Data(Compound(<<Coord(2, Arr)>>, <<Prop(LabelGHS, Hcode(300))>>)),
     Data(Compound(<<Coord(2, Str(Hcode(350)))>>, <<[Prop(LabelGHS, <<>>) EXCEPT !.hasSval = FALSE], Prop(LabelGHS, Hcode(300))>>)),
     Data(Compound(<<[Coord(2, Num(0)) EXCEPT !.hasAid = FALSE]>>, <<Prop(LabelGHS, Hcode(300))>>)),
     Data(Compound(<<>>, <<[Prop(LabelGHS, Hcode(300)) EXCEPT !.hasUrn = FALSE], Prop(LabelGHS, SvalDups)>>))}

CompoundResponses ==
    {[exc |-> ConnectionError, status |-> 0, valid |-> FALSE, data |-> NoData]}
    \cup {[exc |-> NotRaised, status |-> s, valid |-> FALSE, data |-> NoData] : s \in {404, 503}}
    \cup {[exc |-> NotRaised, status |-> 200, valid |-> FALSE, data |-> NoData]}
    \cup {[exc |-> NotRaised, status |-> 200, valid |-> TRUE, data |-> d] : d \in CompoundDatas}

\* No response received (yet) in this run.
NoCidResponse == [exc |-> Exc("unset", ""), status |-> 0, body |-> NoBody]
NoCompoundResponse == [exc |-> Exc("unset", ""), status |-> 0, valid |-> FALSE, data |-> NoData]
NoResult == [pending |-> TRUE]

CidRequest(name) == [kind |-> "cid", name |-> name, cid |-> 0]
CompoundRequest(cid) == [kind |-> "compound", name |-> "", cid |-> cid]

\* Text inputs of the hazard-code page: the five keys, the empty input, a
\* code only the chemical page knows, an unknown code, lower case, and a
\* trailing blank.
HpInputs ==
    {<<>>, Hcode(200), Hcode(220), Hcode(300), Hcode(314), Hcode(400), Hcode(201), Hcode(999),
     <<"h", "2", "0", "0">>, Hcode(200) \o <<" ">>}

\* ------------------------------------------------------------ state
VARIABLES
    hazard_map,             \* hazard_checker.py: the module-level dictionary
    handling_instructions,  \* hazard_checker.py: the module-level dictionary
    hazard_code,            \* hazard-code page: the text input of the last run
    hp_shown,               \* hazard-code page: what the last run displayed
    pc,                     \* chemical page: "idle", "await_cid", "await_compound", "done"
    chemical_name,          \* chemical page: the text input of the current run
    clicked,                \* chemical page: the run was started by the SDS button
    requests,               \* HTTP requests issued by the current get_pubchem_data call
    cid_response,           \* response to the name-to-CID request
    compound_response,      \* response to the compound-details request
    pubchem_data,           \* what get_pubchem_data returned
    hazards,                \* main(): the list interpret_hazards returned
    shown,                  \* chemical page: what the current run displayed
    calls,                  \* functions main() called after the lookup, in order
    button_for,             \* the name whose page holds the SDS button ("": no button)
    earlier,                \* history: one completed run, kept for comparison
    hz,                     \* argument of the pure functions
    ppe_raw,                \* ppe_recommendations before the duplicates are removed
    ppe_out,                \* result of get_ppe_recommendations(hz)
    panel_out,              \* the hazard panel rendered for hz
    fn_ran                  \* which of the pure functions have been applied to hz

hpvars == <<hazard_map, handling_instructions, hazard_code, hp_shown>>
chemvars == <<pc, chemical_name, clicked, requests, cid_response, compound_response, pubchem_data, hazards, shown, calls, button_for, earlier>>
fnvars == <<hz, ppe_raw, ppe_out, panel_out, fn_ran>>
vars == <<hpvars, chemvars, fnvars>>

NoEarlier == [set |-> FALSE, own |-> FALSE]

\* The record of the run that ends with these values; `own` says that the
\* record is that of the current run.
RunRecord(name, click, cidr, compr, hzs, page) ==
    [set |-> TRUE, own |-> TRUE, name |-> name, click |-> click, cid_response |-> cidr, compound_response |-> compr,
     hazards |-> hzs, shown |-> page]

HpInit ==
    /\ hazard_map = hazard_map_literal
    /\ handling_instructions = handling_instructions_literal
    /\ hazard_code = <<>>
    /\ hp_shown = HpBlank

ChemInit ==
    /\ pc = "idle"
    /\ chemical_name = ""
    /\ clicked = FALSE
    /\ requests = <<>>
    /\ cid_response = NoCidResponse
    /\ compound_response = NoCompoundResponse
    /\ pubchem_data = NoResult
    /\ hazards = <<>>
    /\ shown = Blank
    /\ calls = <<>>
    /\ button_for = ""
    /\ earlier = NoEarlier

FnIdle ==
    /\ hz = <<>>
    /\ ppe_raw = <<>>
    /\ ppe_out = <<>>
    /\ panel_out = <<>>
    /\ fn_ran = {}

Init == HpInit /\ ChemInit /\ FnIdle

\* ------------------------------------------------------------ hazard-code page
\* Mutant of HazardPageRun: an unknown code is stored in hazard_map
\* (hazard_map.setdefault) before the lookup.
HazardPageRunCaching ==
    \E code \in HpInputs :
        /\ hazard_code' = code
        /\ hazard_map' = IF code = <<>> \/ code \in DOMAIN hazard_map THEN hazard_map ELSE (code :> UnknownHazard) @@ hazard_map
        /\ hp_shown' = hazard_page(hazard_map', handling_instructions, code)
        /\ UNCHANGED handling_instructions
        /\ UNCHANGED <<chemvars, fnvars>>

\* One run of hazard_checker.py's main() on the text input `code`.
HazardPageRun ==
    \E code \in HpInputs :
        /\ hazard_code' = code
        /\ hp_shown' = hazard_page(hazard_map, handling_instructions, code)
        /\ UNCHANGED <<hazard_map, handling_instructions>>
        /\ UNCHANGED <<chemvars, fnvars>>

\* ------------------------------------------------------------ chemical page
\* A run ends: the page holds the button or not, and the run may be kept
\* for comparison with later runs.
EndRun(name, click, cidr, compr, hzs, page) ==
    /\ pc' = "done"
    /\ hazards' = hzs
    /\ shown' = page
    /\ button_for' = IF page.button THEN name ELSE ""
    /\ \E keep \in BOOLEAN : earlier' = IF keep THEN RunRecord(name, click, cidr, compr, hzs, page) ELSE [earlier EXCEPT !.own = FALSE]

\* The script is rerun: the text input changed, or the SDS button on the
\* page was pressed (the name is then the one the button was rendered for).
\* With a name, get_pubchem_data issues the name-to-CID request.
Rerun ==
    \E name \in Names, click \in BOOLEAN :
        /\ pc \in {"idle", "done"}
        /\ click => (name # "" /\ button_for = name)
        /\ chemical_name' = name
        /\ clicked' = click
        /\ cid_response' = NoCidResponse
        /\ compound_response' = NoCompoundResponse
        /\ pubchem_data' = NoResult
        /\ calls' = <<>>
        /\ IF name = ""
           THEN /\ requests' = <<>>
                /\ EndRun(name, click, NoCidResponse, NoCompoundResponse, <<>>, Blank)
           ELSE /\ requests' = <<CidRequest(name)>>
                /\ pc' = "await_cid"
                /\ hazards' = <<>>
                /\ shown' = [Blank EXCEPT !.title = name]
                /\ button_for' = ""
                /\ earlier' = [earlier EXCEPT !.own = FALSE]
        /\ UNCHANGED <<hpvars, fnvars>>

\* An exception leaves get_pubchem_data: main() stops and Streamlit shows it.
Uncaught == [Blank EXCEPT !.title = chemical_name, !.exception = TRUE]

\* The name-to-CID response arrives: get_pubchem_data returns a failure
\* (and main() displays it), or issues the compound-details request.
CidResponse ==
    \E response \in CidResponses :
        /\ pc = "await_cid"
        /\ cid_response' = response
        /\ LET after == AfterCid(response)
           IN CASE after.next = "request" ->
                       /\ requests' = Append(requests, CompoundRequest(after.cid))
                       /\ pc' = "await_compound"
                       /\ UNCHANGED <<pubchem_data, hazards, shown, calls, button_for, earlier>>
                [] after.next = "return" ->
                       /\ pubchem_data' = after.result
                       /\ calls' = Render(chemical_name, clicked, after.result).calls
                       /\ EndRun(chemical_name, clicked, response, NoCompoundResponse,
                                 Render(chemical_name, clicked, after.result).hazards,
                                 Render(chemical_name, clicked, after.result).shown)
                       /\ UNCHANGED requests
                [] OTHER ->
                       /\ EndRun(chemical_name, clicked, response, NoCompoundResponse, <<>>, Uncaught)
                       /\ UNCHANGED <<pubchem_data, calls, requests>>
        /\ UNCHANGED <<chemical_name, clicked, compound_response>>
        /\ UNCHANGED <<hpvars, fnvars>>

\* The compound-details response arrives: get_pubchem_data returns, and
\* main() interprets the hazards and displays the outcome.
CompoundResponse ==
    \E response \in CompoundResponses :
        /\ pc = "await_compound"
        /\ compound_response' = response
        /\ LET after == AfterCompound(response)
           IN IF after.next = "return"
              THEN /\ pubchem_data' = after.result
                   /\ calls' = Render(chemical_name, clicked, after.result).calls
                   /\ EndRun(chemical_name, clicked, cid_response, response,
                             Render(chemical_name, clicked, after.result).hazards,
                             Render(chemical_name, clicked, after.result).shown)
              ELSE /\ EndRun(chemical_name, clicked, cid_response, response, <<>>, Uncaught)
                   /\ UNCHANGED <<pubchem_data, calls>>
        /\ UNCHANGED <<chemical_name, clicked, requests, cid_response>>
        /\ UNCHANGED <<hpvars, fnvars>>

Next == HazardPageRun \/ Rerun \/ CidResponse \/ CompoundResponse

Spec == Init /\ [][Next]_vars

\* ------------------------------------------------------------ the pure functions
\* Values a hazard list can hold: codes of every PPE group, a code with a
\* text after ':', a code after ':', an unknown code, a code with a
\* leading blank, the empty string, a string starting with ':', a number,
\* a JSON array.
HazardSamples ==
    {Str(Hcode(300)), Str(Hcode(332)), Str(Hcode(314)), Str(Hcode(225)), Str(Hcode(350)),
     Str(Hcode(300) \o <<":", " ", "F">>), Str(Hcode(319) \o <<":">> \o Hcode(225)),
     Str(Hcode(999)), Str(<<" ">> \o Hcode(314)), Str(<<>>), Str(<<":">> \o Hcode(300)),
     Num(7), Arr}

HazardLists == UNION {[1..n -> HazardSamples] : n \in 0..MaxLen}

FnInit ==
    /\ hz \in HazardLists
    /\ ppe_raw = <<>>
    /\ ppe_out = <<>>
    /\ panel_out = <<>>
    /\ fn_ran = {}

\* get_ppe_recommendations(hz)
ApplyPPE ==
    /\ "ppe" \notin fn_ran
    /\ ppe_raw' = ppe_recommendations_raw(hz)
    /\ ppe_out' = get_ppe_recommendations(hz)
    /\ fn_ran' = fn_ran \cup {"ppe"}
    /\ UNCHANGED <<hz, panel_out>>
    /\ UNCHANGED <<hpvars, chemvars>>

\* The hazard-panel loop of main() on hz
ApplyPanel ==
    /\ "panel" \notin fn_ran
    /\ panel_out' = hazard_panel(hz)
    /\ fn_ran' = fn_ran \cup {"panel"}
    /\ UNCHANGED <<hz, ppe_raw, ppe_out>>
    /\ UNCHANGED <<hpvars, chemvars>>

InitFn == HpInit /\ ChemInit /\ FnInit

NextFn == ApplyPPE \/ ApplyPanel

SpecFn == InitFn /\ [][NextFn]_vars

\* ============================================================ claims
Returned == pubchem_data # NoResult
RunDone == pc = "done" /\ chemical_name # ""

\* The CID body yields a CID: valid JSON, an object with IdentifierList.CID
\* holding at least one entry.
CidExtractable(body) == body.valid /\ body.isDict /\ body.hasIdList /\ body.hasCID /\ body.cids # <<>>
CidReceived200 == cid_response.exc.cls = "none" /\ cid_response.status = 200
CidRejected == cid_response.exc.cls = "none" /\ cid_response.status # 200
CompoundReceived200 == compound_response.exc.cls = "none" /\ compound_response.status = 200
CompoundRejected == compound_response.exc.cls = "none" /\ compound_response.status # 200

\* C1, as the spec states it: every failure result of get_pubchem_data comes
\* from a status-code check (status != 200) on one of its two responses.
C1_OnlyStatusChecks ==
    (Returned /\ ~pubchem_data.success) => (CidRejected \/ CompoundRejected)

\* str(e) of the exception the try block raised, "" when it raised none:
\* a request failed, a body was no JSON, or the CID body had no
\* ['IdentifierList']['CID'][0].
RaisedInTry ==
    IF cid_response.exc.cls \notin {"none", "unset"} THEN cid_response.exc.text
    ELSE IF CidReceived200 /\ ~cid_response.body.valid THEN "Expecting value: line 1 column 1 (char 0)"
    ELSE IF CidReceived200 /\ ~cid_response.body.isDict THEN "list indices must be integers or slices, not str"
    ELSE IF CidReceived200 /\ ~cid_response.body.hasIdList THEN "'IdentifierList'"
    ELSE IF CidReceived200 /\ ~cid_response.body.hasCID THEN "'CID'"
    ELSE IF CidReceived200 /\ cid_response.body.cids = <<>> THEN "list index out of range"
    ELSE IF compound_response.exc.cls \notin {"none", "unset"} THEN compound_response.exc.text
    ELSE IF CompoundReceived200 /\ ~compound_response.valid THEN "Expecting value: line 1 column 1 (char 0)"
    ELSE ""

\* C1, amended: every failure result of get_pubchem_data comes either from
\* a status-code check on one of its two responses (with that check's fixed
\* message) or from the except clause, which turns an exception raised by a
\* request, by decoding a body or by indexing the CID body into a failure
\* carrying str(e); there is no third source.
C1_FailureSources ==
    (Returned /\ ~pubchem_data.success) =>
        \/ /\ CidRejected
           /\ Len(requests) = 1
           /\ pubchem_data.error = CidNotFound
        \/ /\ CidReceived200 /\ CidExtractable(cid_response.body)
           /\ CompoundRejected
           /\ pubchem_data.error = DetailsFailed
        \/ /\ ~CidRejected /\ ~CompoundRejected
           /\ RaisedInTry # ""
           /\ pubchem_data.error = RaisedInTry

\* A failure produced by the except clause, with no status check failing.
C1_Witness ==
    /\ pc = "done" /\ Returned /\ ~pubchem_data.success
    /\ CidReceived200 /\ ~CidExtractable(cid_response.body)
    /\ pubchem_data.error = "list index out of range"

\* C7: get_pubchem_data never raises; it returns a dict with a boolean
\* 'success', with 'data' exactly when success is True and 'error' exactly
\* when it is False, and success is True only if both requests returned 200.
C7_WellFormedResult ==
    /\ RunDone => Returned
    /\ Returned =>
        /\ "success" \in DOMAIN pubchem_data
        /\ pubchem_data.success \in BOOLEAN
        /\ ("data" \in DOMAIN pubchem_data) <=> pubchem_data.success
        /\ ("error" \in DOMAIN pubchem_data) <=> ~pubchem_data.success
        /\ pubchem_data.success =>
            /\ CidReceived200
            /\ CompoundReceived200

\* A run in which indexing the CID body raised, and a failure came back.
C7_Witness ==
    /\ RunDone /\ Returned /\ ~pubchem_data.success
    /\ CidReceived200 /\ cid_response.body.valid /\ ~cid_response.body.hasIdList

\* C6: the name-to-CID request comes first; the compound-details request is
\* issued only after the CID response had status 200 and gave a CID; a call
\* issues at most two requests; interpretation, PPE selection and SDS
\* assembly happen only after a successful result was returned.
C6_Sequential ==
    /\ Len(requests) <= 2
    /\ (pc = "idle" \/ chemical_name = "") => requests = <<>>
    /\ Len(requests) >= 1 => requests[1] = CidRequest(chemical_name)
    /\ pc = "await_cid" => Len(requests) = 1 /\ cid_response = NoCidResponse
    /\ Len(requests) = 2 =>
        /\ CidReceived200 /\ CidExtractable(cid_response.body)
        /\ requests[2] = CompoundRequest(cid_response.body.cids[1])
    /\ Len(requests) < 2 => compound_response = NoCompoundResponse
    /\ pc = "await_compound" => Len(requests) = 2 /\ compound_response = NoCompoundResponse /\ ~Returned
    /\ (calls # <<>> \/ hazards # <<>> \/ shown.ppe # <<>> \/ shown.panel # <<>> \/ shown.sds.made) =>
        /\ pc = "done" /\ Returned /\ pubchem_data.success
        /\ Len(requests) = 2 /\ CompoundReceived200

\* A run that issued both requests and went on to assemble the SDS.
C6_Witness ==
    /\ pc = "done" /\ Len(requests) = 2
    /\ calls = <<"interpret_hazards", "hazard_to_symbol", "get_ppe_recommendations", "generate_sds">>
    /\ shown.sds.made

Outcome1 == shown.symbolsHeader /\ shown.ppeHeader /\ shown.ppe # <<>>
Outcome2 == shown.noHazardWarning
Outcome3 == shown.errorShown

\* C5: a run with a name ends in exactly one of: symbols and PPE shown
\* (lookup succeeded, hazards non-empty), the no-hazard warning (lookup
\* succeeded, no hazards), the fetch error (lookup failed).  The SDS is made
\* only in the first outcome and only when the button was pressed in that
\* run; with an empty name no lookup is made.
C5_Outcomes ==
    /\ RunDone =>
        /\ Returned
        /\ Outcome1 <=> (pubchem_data.success /\ hazards # <<>>)
        /\ Outcome2 <=> (pubchem_data.success /\ hazards = <<>>)
        /\ Outcome3 <=> ~pubchem_data.success
        /\ Outcome3 => shown.error = pubchem_data.error
        /\ Cardinality({o \in {1, 2, 3} : (o = 1 /\ Outcome1) \/ (o = 2 /\ Outcome2) \/ (o = 3 /\ Outcome3)}) = 1
        /\ shown.button <=> Outcome1
    /\ shown.sds.made => (pc = "done" /\ Outcome1 /\ clicked)
    /\ (pc = "done" /\ chemical_name = "") => (requests = <<>> /\ shown = Blank /\ ~Returned)

\* The button was pressed and the SDS was made for a non-empty hazard list.
C5_Witness ==
    /\ RunDone /\ clicked /\ Outcome1 /\ shown.sds.made
    /\ Len(shown.sds.hazardItems) >= 2

\* C2: lookups are stateless.  The two module-level tables never change;
\* the hazard-code page's output is the one the tables as written give for
\* its input; and a chemical-page run with the same name, the same button
\* press and the same two responses as an earlier run ends with the same
\* hazards and the same page (panel, PPE list and SDS included).
C2_Stateless ==
    /\ hazard_map = hazard_map_literal
    /\ handling_instructions = handling_instructions_literal
    /\ hp_shown = hazard_page(hazard_map_literal, handling_instructions_literal, hazard_code)
    /\ ( /\ pc = "done" /\ earlier.set
         /\ earlier.name = chemical_name /\ earlier.click = clicked
         /\ earlier.cid_response = cid_response /\ earlier.compound_response = compound_response )
       => (earlier.hazards = hazards /\ earlier.shown = shown)

\* A run that repeats an earlier run's inputs, after lookups in both pages.
C2_Witness ==
    /\ pc = "done" /\ earlier.set /\ ~earlier.own
    /\ earlier.name = chemical_name /\ earlier.click = clicked
    /\ earlier.cid_response = cid_response /\ earlier.compound_response = compound_response
    /\ shown.sds.made /\ Len(shown.ppe) >= 3
    /\ hp_shown.warning

\* C4: the hazard-code page shows, for a key of hazard_map, that code's
\* symbol, name and own handling instruction (never the fallback text) and
\* no warning; for any other non-empty input only the warning; for the
\* empty input nothing.
C4_HazardPage ==
    /\ hazard_code \in DOMAIN hazard_map =>
        /\ hp_shown.symbolShown /\ ~hp_shown.warning
        /\ hp_shown.symbol = hazard_map[hazard_code].symbol
        /\ hp_shown.name = hazard_map[hazard_code].name
        /\ hazard_code \in DOMAIN handling_instructions
        /\ hp_shown.instruction = handling_instructions[hazard_code]
        /\ hp_shown.instruction # NoInstruction
    /\ (hazard_code # <<>> /\ hazard_code \notin DOMAIN hazard_map) =>
        hp_shown = [HpBlank EXCEPT !.warning = TRUE]
    /\ hazard_code = <<>> => hp_shown = HpBlank
    /\ ~(hp_shown.symbolShown /\ hp_shown.warning)

\* The page shows H314 with its symbol and handling instruction.
C4_Witness ==
    /\ hazard_code = Hcode(314) /\ hp_shown.symbolShown
    /\ hp_shown.instruction = "Wear protective gloves and eye protection."

\* C10: every key of the hazard-code page's hazard_map is known to the
\* chemical page's hazard_to_symbol with the same symbol and name, so a code
\* the hazard-code page displays is displayed alike by the chemical page.
C10_TablesAgree ==
    /\ \A code \in DOMAIN hazard_map :
        /\ code \in DOMAIN symbol_table
        /\ hazard_to_symbol(Str(code)) = hazard_map[code]
    /\ hp_shown.symbolShown =>
        /\ hazard_to_symbol(Str(hazard_code)).symbol = hp_shown.symbol
        /\ hazard_to_symbol(Str(hazard_code)).name = hp_shown.name

\* The hazard-code page displays H300, which the chemical page knows too.
C10_Witness ==
    /\ hazard_code = Hcode(300) /\ hp_shown.symbolShown
    /\ hazard_to_symbol(Str(hazard_code)) # UnknownHazard

\* ------------------------------------------------------------ claims about the pure functions
Items(recs) == {recs[i].item : i \in 1..Len(recs)}
NoDuplicateItems(recs) == \A i, j \in 1..Len(recs) : recs[i].item = recs[j].item => i = j

\* The indices of raw at which an item occurs for the first time, and the
\* k-th smallest of them.
FirstOccurrences(raw) == {i \in 1..Len(raw) : \A j \in 1..(i - 1) : raw[j].item # raw[i].item}
KthFirst(raw, k) == CHOOSE i \in FirstOccurrences(raw) : Cardinality({j \in FirstOccurrences(raw) : j <= i}) = k

\* C3: get_ppe_recommendations returns no two entries with the same item,
\* and its entries are the first occurrences of the un-deduplicated list, in
\* that list's order.
C3_Deduplicated ==
    "ppe" \in fn_ran =>
        /\ NoDuplicateItems(ppe_out)
        /\ Len(ppe_out) = Cardinality(FirstOccurrences(ppe_raw))
        /\ \A k \in 1..Len(ppe_out) : ppe_out[k] = ppe_raw[KthFirst(ppe_raw, k)]

\* A list whose recommendations repeat, interleaved, before deduplication.
C3_Witness ==
    /\ "ppe" \in fn_ran
    /\ Len(ppe_raw) >= Len(ppe_out) + 2
    /\ Len(ppe_out) >= 4

\* The text of s before its first ':' (all of s when it has none).
TextBeforeColon(s) == SubSeq(s, 1, FirstIndex(s, ":") - 1)
StringCodes(list) == {TextBeforeColon(list[i].s) : i \in {j \in 1..Len(list) : list[j].t = "str"}}
GroupItems(list, codes, items) == IF StringCodes(list) \cap codes # {} THEN items ELSE {}
ExpectedItems(list) ==
    {"Safety Glasses"}
    \cup GroupItems(list, ToxicCodes, {"Respirator", "Gloves"})
    \cup GroupItems(list, CorrosiveCodes, {"Face Shield", "Chemical Apron"})
    \cup GroupItems(list, FlammableCodes, {"Flame-Resistant Clothing"})
    \cup GroupItems(list, CarcinogenCodes, {"Full Body Suit"})

Reordered(list, p) == [i \in 1..Len(list) |-> list[p[i]]]

\* C8: the result starts with Safety Glasses (also for the empty list); its
\* set of items is Safety Glasses plus the PPE of every group hit by the
\* code of some string hazard; the set is the same for every reordering and
\* repetition of the list, and appending a hazard removes nothing.
C8_PPESet ==
    "ppe" \in fn_ran =>
        /\ Len(ppe_out) >= 1 /\ ppe_out[1] = SafetyGlasses
        /\ Items(ppe_out) = ExpectedItems(hz)
        /\ \A p \in Permutations(1..Len(hz)) : Items(get_ppe_recommendations(Reordered(hz, p))) = Items(ppe_out)
        /\ Items(get_ppe_recommendations(hz \o hz)) = Items(ppe_out)
        /\ \A v \in HazardSamples : Items(ppe_out) \subseteq Items(get_ppe_recommendations(Append(hz, v)))

\* A list hitting two groups, one of them through a code followed by text.
C8_Witness ==
    /\ "ppe" \in fn_ran
    /\ \E i \in 1..Len(hz) : hz[i] = Str(Hcode(319) \o <<":">> \o Hcode(225))
    /\ \E i \in 1..Len(hz) : hz[i] = Str(Hcode(332))
    /\ Items(ppe_out) = {"Safety Glasses", "Respirator", "Gloves", "Face Shield", "Chemical Apron"}

\* The codes of the string entries of list, in list order.
RECURSIVE CodeSeq(_)
CodeSeq(list) ==
    IF list = <<>> THEN <<>>
    ELSE (IF Head(list).t = "str" THEN <<TextBeforeColon(Head(list).s)>> ELSE <<>>) \o CodeSeq(Tail(list))

FirstCodes(codes) == {i \in 1..Len(codes) : \A j \in 1..(i - 1) : codes[j] # codes[i]}
KthCode(codes, k) == codes[CHOOSE i \in FirstCodes(codes) : Cardinality({j \in FirstCodes(codes) : j <= i}) = k]

\* C9: the hazard panel renders each distinct code of the string entries
\* once, in first-occurrence order, skipping non-strings; a code of the
\* table gets its symbol and name, any other code the fallback symbol and
\* 'Unknown hazard'.
C9_Panel ==
    "panel" \in fn_ran =>
        /\ Len(panel_out) = Cardinality(FirstCodes(CodeSeq(hz)))
        /\ \A k \in 1..Len(panel_out) :
            /\ panel_out[k].code = KthCode(CodeSeq(hz), k)
            /\ IF panel_out[k].code \in DOMAIN symbol_table
               THEN /\ panel_out[k].symbol = symbol_table[panel_out[k].code].symbol
                    /\ panel_out[k].name = symbol_table[panel_out[k].code].name
               ELSE /\ panel_out[k].symbol = "U+2753"
                    /\ panel_out[k].name = "Unknown hazard"
        /\ \A i, j \in 1..Len(panel_out) : panel_out[i].code = panel_out[j].code => i = j

\* A repeated code rendered once, a number skipped, an unknown code kept.
C9_Witness ==
    /\ "panel" \in fn_ran
    /\ hz = <<Str(Hcode(300) \o <<":", " ", "F">>), Num(7), Str(Hcode(300))>>
    /\ Len(panel_out) = 1 /\ panel_out[1].name = "Fatal if swallowed"

====
